---- MODULE Spec2Model ----
(***************************************************************************)
(* Model of crates/rolldown/src/bundler/bundle/bundle.rs: the chunking     *)
(* core of the bundler (Bundle::mark_modules_entry_bit,                    *)
(* Bundle::generate_chunks, Bundle::generate).                             *)
(*                                                                         *)
(* Module ids, entry indices and chunk ids are 0-based as in the source.   *)
(* Option<T> is modelled as a sequence: None = <<>>, Some(x) = <<x>>.      *)
(***************************************************************************)
EXTENDS Integers, Sequences, FiniteSets, TLC

(* ------------------------------ bounds -------------------------------- *)
\* number of modules in graph.modules
NumModules == 3
\* upper bound on the total number of import records in the graph
MaxImports == 2
\* upper bound on the number of declared entries
MaxEntries == 2
\* exec_order values are drawn from 0 .. MaxExecOrder
MaxExecOrder == 1

(* ------------------------------ values -------------------------------- *)
None == <<>>
Some(x) == <<x>>

ModuleIds == 0 .. (NumModules - 1)

StaticImport == "Import"
DynamicImport == "DynamicImport"
ImportKinds == {StaticImport, DynamicImport}

\* the set of the elements of a sequence
Range(s) == {s[k] : k \in 1 .. Len(s)}

(* ------------------------------ BitSet -------------------------------- *)
\* BitSet::new(max_bit_count): all bits clear
BitSetNew(width) == [b \in 0 .. (width - 1) |-> FALSE]

BitSetHasBit(bs, bit) == bs[bit]

BitSetSetBit(bs, bit) == [bs EXCEPT ![bit] = TRUE]

\* the set of bit positions that are set
BitsOf(bs) == {b \in DOMAIN bs : bs[b]}

(* --------------------------- input graphs ----------------------------- *)
\* an import record: the module it resolves to and its kind
ImportRecords == [resolved_module : ModuleIds, kind : ImportKinds]

\* <<src, record>>: module src holds the record; a module importing itself
\* is left out of the enumerated graphs
EdgeCandidates ==
  {e \in ModuleIds \X ImportRecords : e[1] # e[2].resolved_module}

RECURSIVE EdgeSetsUpTo(_)
EdgeSetsUpTo(k) ==
  IF k = 0 THEN {{}}
  ELSE LET P == EdgeSetsUpTo(k - 1)
       IN  P \cup {S \cup {e} : S \in P, e \in EdgeCandidates}

RecordKey(r) == 2 * r.resolved_module + (IF r.kind = DynamicImport THEN 1 ELSE 0)

\* the records of a set, as the list the module holds
RECURSIVE RecordList(_)
RecordList(R) ==
  IF R = {} THEN <<>>
  ELSE LET r == CHOOSE x \in R : \A y \in R : RecordKey(x) <= RecordKey(y)
       IN  <<r>> \o RecordList(R \ {r})

ModuleTable(E, eo) ==
  [m \in ModuleIds |->
     [import_records |-> RecordList({e[2] : e \in {x \in E : x[1] = m}}),
      exec_order |-> eo[m]]]

\* the names the entries are declared with
EntryNames == {None}

EntryLists ==
  UNION {[1 .. n -> [name : EntryNames, module_id : ModuleIds]] : n \in 0 .. MaxEntries}

\* the graphs with the given choices of execution orders and runtime modules
GraphsOver(exec_orders, runtime_ids) ==
  {[modules |-> ModuleTable(E, eo), entries |-> es, runtime |-> [id |-> r]] :
     E \in EdgeSetsUpTo(MaxImports),
     eo \in exec_orders,
     es \in EntryLists,
     r \in runtime_ids}

Graphs == GraphsOver([ModuleIds -> 0 .. MaxExecOrder], ModuleIds)

\* mark_modules_entry_bit reads neither exec_order nor the runtime module:
\* the graphs that differ in the import records and the entries only
MarkGraphs == GraphsOver({[m \in ModuleIds |-> 0]}, {0})

\* the phases of generate after generate_chunks do not read exec_order:
\* the graphs that differ in the import records and the entries, with the
\* runtime module first or not first
GenerateGraphs == GraphsOver({[m \in ModuleIds |-> 0]}, {0, 1})

\* names an entry can be declared with; "1" is also the decimal form of a
\* chunk count
DeclaredNames == {None, Some("main"), Some("1")}

\* the graphs of the marking with every choice of declared entry names
NamedGraphs ==
  {[g EXCEPT !.entries = [k \in 1 .. Len(g.entries) |->
                            [name |-> names[k], module_id |-> g.entries[k].module_id]]] :
     g \in MarkGraphs, names \in [1 .. MaxEntries -> DeclaredNames]}

(* ------------------------------ state --------------------------------- *)
VARIABLES
  graph,           \* self.graph: modules, entries, runtime
  pc,              \* position in generate / generate_chunks
  module_to_bits,  \* module_to_bits: IndexVec<ModuleId, BitSet>
  chunks,          \* the FxHashMap<BitSet, Chunk>, in insertion order
  mark_index,      \* index of the entry whose marking is next or in progress
  stack,           \* call stack of mark_modules_entry_bit
  expanded,        \* how often set_bit ran for (module, entry index)
  chunks_vec,      \* ChunksVec returned by generate_chunks
  module_to_chunk, \* IndexVec<ModuleId, Option<ChunkId>>
  running,         \* the chunks whose task of the current phase is executing
  export_calls,    \* the chunks initialize_exports was called for, in call order
  assets,          \* the Assets collected so far by generate
  outcome          \* how generate ended: None while it runs

vars == <<graph, pc, module_to_bits, chunks, mark_index, stack, expanded,
          chunks_vec, module_to_chunk, running, export_calls, assets, outcome>>

NumEntries == Len(graph.entries)

\* entry index i (0-based) names graph.entries[i]
EntryModule(i) == graph.entries[i + 1].module_id

ImportRecordsOf(m) == graph.modules[m].import_records

(* ---------------------------- Chunk::new ------------------------------ *)
\* a new chunk has no file name; de_conflicted and exports_initialized record
\* that Chunk::de_conflict and Chunk::initialize_exports have returned for it
ChunkNew(name, entry_module, bits, modules) ==
  [name |-> name, entry_module |-> entry_module, bits |-> bits, modules |-> modules,
   file_name |-> None, de_conflicted |-> FALSE, exports_initialized |-> FALSE]

(* ----------------------- FxHashMap operations ------------------------- *)
\* variant: keys are compared by their number of set bits only
MapIndexByBitCount(map, key) ==
  IF \E k \in 1 .. Len(map) : Cardinality(BitsOf(map[k].bits)) = Cardinality(BitsOf(key))
  THEN CHOOSE k \in 1 .. Len(map) :
         Cardinality(BitsOf(map[k].bits)) = Cardinality(BitsOf(key))
  ELSE 0

\* position of the key in the map, 0 when absent
MapIndex(map, key) ==
  IF \E k \in 1 .. Len(map) : map[k].bits = key
  THEN CHOOSE k \in 1 .. Len(map) : map[k].bits = key
  ELSE 0

MapInsert(map, key, c) ==
  IF MapIndex(map, key) = 0 THEN Append(map, c)
  ELSE [map EXCEPT ![MapIndex(map, key)] = c]

(* ------------------- generate_chunks: seeding (48-62) ------------------ *)
EntryBits(i) == BitSetSetBit(BitSetNew(NumEntries), i)

\* variant: the chunk of an entry starts with its entry module as a member
RECURSIVE SeedFromWithEntry(_, _)
SeedFromWithEntry(i, map) ==
  IF i >= NumEntries THEN map
  ELSE SeedFromWithEntry(i + 1,
         MapInsert(map, EntryBits(i),
           ChunkNew(graph.entries[i + 1].name, Some(EntryModule(i)), EntryBits(i),
                    <<EntryModule(i)>>)))

\* lines 56-62
RECURSIVE SeedFrom(_, _)
SeedFrom(i, map) ==
  IF i >= NumEntries THEN map
  ELSE SeedFrom(i + 1,
         MapInsert(map, EntryBits(i),
           ChunkNew(graph.entries[i + 1].name, Some(EntryModule(i)), EntryBits(i), <<>>)))

Seed ==
  /\ pc = "seed"
  /\ module_to_bits' = [m \in ModuleIds |-> BitSetNew(NumEntries)]
  /\ chunks' = SeedFrom(0, <<>>)
  /\ pc' = IF NumEntries = 0 THEN "cluster" ELSE "mark"
  /\ UNCHANGED <<graph, mark_index, stack, expanded, chunks_vec, module_to_chunk,
                 running, export_calls, assets, outcome>>

(* ------------------ mark_modules_entry_bit (27-45) --------------------- *)
\* variant: dynamic imports are followed too
FollowedAlways(rec) == rec.kind \in ImportKinds

\* line 40: only records that are not dynamic imports are followed
Followed(rec) == rec.kind # DynamicImport

\* variant: the early return looks at the bits of all entries
AlreadyMarkedAnyBit(bits, m, index) == BitsOf(bits[m]) # {}

\* variant: the early return is missing
AlreadyMarkedNever(bits, m, index) == BitSetHasBit(bits[m], index) /\ FALSE

\* line 33: the early return
AlreadyMarked(bits, m, index) == BitSetHasBit(bits[m], index)

\* a frame whose for_each has no record left returns to its caller
RECURSIVE Unwind(_)
Unwind(st) ==
  IF st = <<>> THEN st
  ELSE LET top == st[Len(st)]
       IN  IF top.next > Len(ImportRecordsOf(top.module_id))
           THEN Unwind(SubSeq(st, 1, Len(st) - 1))
           ELSE st

\* one invocation mark_modules_entry_bit(m, index, module_to_bits) up to its
\* for_each; st is the stack of the callers
MarkCall(m, index, st) ==
  IF AlreadyMarked(module_to_bits, m, index)
  THEN /\ module_to_bits' = module_to_bits
       /\ expanded' = expanded
       /\ stack' = Unwind(st)
  ELSE /\ module_to_bits' =
            [module_to_bits EXCEPT ![m] = BitSetSetBit(@, index)]
       /\ expanded' = [expanded EXCEPT ![m][index] = @ + 1]
       /\ stack' = Unwind(Append(st, [module_id |-> m, next |-> 1]))

\* variant: clustering begins when the call for the first entry has returned
MarkAdvanceAfterFirst ==
  IF stack' = <<>>
  THEN /\ mark_index' = mark_index + 1
       /\ pc' = "cluster"
  ELSE /\ mark_index' = mark_index
       /\ pc' = pc

\* when the outermost call has returned, the loop of lines 64-66 moves on
MarkAdvance ==
  IF stack' = <<>>
  THEN /\ mark_index' = mark_index + 1
       /\ pc' = IF mark_index + 1 = NumEntries THEN "cluster" ELSE "mark"
  ELSE /\ mark_index' = mark_index
       /\ pc' = pc

\* lines 64-66: the call for the next entry
MarkEntry ==
  /\ pc = "mark"
  /\ stack = <<>>
  /\ mark_index < NumEntries
  /\ MarkCall(EntryModule(mark_index), mark_index, stack)
  /\ MarkAdvance
  /\ UNCHANGED <<graph, chunks, chunks_vec, module_to_chunk, running, export_calls, assets, outcome>>

\* lines 38-43: the innermost active call visits its next import record
MarkImport ==
  /\ pc = "mark"
  /\ stack # <<>>
  /\ LET top == stack[Len(stack)]
         rec == ImportRecordsOf(top.module_id)[top.next]
         st  == [stack EXCEPT ![Len(stack)].next = @ + 1]
     IN  IF Followed(rec)
         THEN MarkCall(rec.resolved_module, mark_index, st)
         ELSE /\ stack' = Unwind(st)
              /\ UNCHANGED <<module_to_bits, expanded>>
  /\ MarkAdvance
  /\ UNCHANGED <<graph, chunks, chunks_vec, module_to_chunk, running, export_calls, assets, outcome>>

(* ----------------- generate_chunks: clustering (68-87) ----------------- *)
\* Iterator::skip_while: drops the leading items for which pred holds
RECURSIVE SkipWhileRuntime(_, _)
SkipWhileRuntime(ids, runtime_id) ==
  IF ids = <<>> THEN ids
  ELSE IF Head(ids) = runtime_id THEN SkipWhileRuntime(Tail(ids), runtime_id)
  ELSE ids

ModuleIdList == [k \in 1 .. NumModules |-> k - 1]

\* variant: a new chunk starts with an empty member list
ClusterModuleForgetsMember(map, m, bits) ==
  IF MapIndex(map, bits) # 0
  THEN [map EXCEPT ![MapIndex(map, bits)].modules = Append(@, m)]
  ELSE MapInsert(map, bits, ChunkNew(Some(ToString(Len(map))), None, bits, <<>>))

\* variant: a module whose signature has a chunk replaces that chunk
ClusterModuleReplaces(map, m, bits) ==
  MapInsert(map, bits, ChunkNew(Some(ToString(Len(map))), None, bits, <<m>>))

\* variant: a module that no entry reaches gets no chunk
ClusterModuleDropsUnreached(map, m, bits) ==
  IF BitsOf(bits) = {} THEN map
  ELSE IF MapIndex(map, bits) # 0
       THEN [map EXCEPT ![MapIndex(map, bits)].modules = Append(@, m)]
       ELSE MapInsert(map, bits, ChunkNew(Some(ToString(Len(map))), None, bits, <<m>>))

\* variant: a module that opens a chunk is pushed to the first chunk as well
ClusterModuleShares(map, m, bits) ==
  IF MapIndex(map, bits) # 0
  THEN [map EXCEPT ![MapIndex(map, bits)].modules = Append(@, m)]
  ELSE IF map = <<>>
       THEN MapInsert(map, bits, ChunkNew(Some(ToString(Len(map))), None, bits, <<m>>))
       ELSE MapInsert([map EXCEPT ![1].modules = Append(@, m)], bits,
                      ChunkNew(Some(ToString(Len(map))), None, bits, <<m>>))

\* lines 76-86 for one module
ClusterModule(map, m, bits) ==
  IF MapIndex(map, bits) # 0
  THEN [map EXCEPT ![MapIndex(map, bits)].modules = Append(@, m)]
  ELSE MapInsert(map, bits, ChunkNew(Some(ToString(Len(map))), None, bits, <<m>>))

RECURSIVE ClusterFrom(_, _)
ClusterFrom(ids, map) ==
  IF ids = <<>> THEN map
  ELSE ClusterFrom(Tail(ids), ClusterModule(map, Head(ids), module_to_bits[Head(ids)]))

Cluster ==
  /\ pc = "cluster"
  /\ chunks' = ClusterFrom(SkipWhileRuntime(ModuleIdList, graph.runtime.id), chunks)
  /\ pc' = "collect"
  /\ UNCHANGED <<graph, module_to_bits, mark_index, stack, expanded,
                 chunks_vec, module_to_chunk, running, export_calls, assets, outcome>>

(* ------------- generate_chunks: order and index (89-109) --------------- *)
ExecOrder(m) == graph.modules[m].exec_order

\* insertion of x behind every element whose key is not larger (stable)
RECURSIVE InsertByKey(_, _)
InsertByKey(sorted, x) ==
  IF sorted = <<>> THEN <<x>>
  ELSE IF ExecOrder(Head(sorted)) <= ExecOrder(x)
       THEN <<Head(sorted)>> \o InsertByKey(Tail(sorted), x)
       ELSE <<x>> \o sorted

RECURSIVE SortFrom(_, _)
SortFrom(rest, sorted) ==
  IF rest = <<>> THEN sorted
  ELSE SortFrom(Tail(rest), InsertByKey(sorted, Head(rest)))

\* variant: the member list is left in insertion order
SortOmitted(mods) == mods

\* line 92: chunk.modules.sort_by_key(|id| exec_order)
SortByExecOrder(mods) == SortFrom(mods, <<>>)

\* lines 89-95: the values of the map in the map's iteration order, which is
\* the order of the hashes of the keys: some permutation of the entries
IntoValues(map, order) ==
  [k \in 1 .. Len(map) |->
     [map[order[k]] EXCEPT !.modules = SortByExecOrder(@)]]

\* variant: the index counts the chunks from one
IndexOfOneBased(cv) ==
  [m \in ModuleIds |->
     IF \E k \in 1 .. Len(cv) : m \in Range(cv[k].modules)
     THEN Some(CHOOSE k \in 1 .. Len(cv) :
                  /\ m \in Range(cv[k].modules)
                  /\ \A j \in (k + 1) .. Len(cv) : m \notin Range(cv[j].modules))
     ELSE None]

\* lines 97-107
IndexOf(cv) ==
  [m \in ModuleIds |->
     IF \E k \in 1 .. Len(cv) : m \in Range(cv[k].modules)
     THEN Some((CHOOSE k \in 1 .. Len(cv) :
                  /\ m \in Range(cv[k].modules)
                  /\ \A j \in (k + 1) .. Len(cv) : m \notin Range(cv[j].modules)) - 1)
     ELSE None]

Collect ==
  /\ pc = "collect"
  /\ \E order \in Permutations(1 .. Len(chunks)) :
       /\ chunks_vec' = IntoValues(chunks, order)
       /\ module_to_chunk' = IndexOf(IntoValues(chunks, order))
  /\ pc' = "render_file_name"
  /\ UNCHANGED <<graph, module_to_bits, chunks, mark_index, stack, expanded,
                 running, export_calls, assets, outcome>>

(* --------------------------- generate (112-142) ------------------------ *)
genvars == <<graph, module_to_bits, chunks, mark_index, stack, expanded>>

\* the chunks of the list, by position
ChunkIds == 1 .. Len(chunks_vec)

\* variant: for_each returns as soon as every task was handed to a worker
ForEachReturnsUnjoined(done) == \A k \in ChunkIds : k \in done \/ k \in running

\* lines 119 and 121-123: par_bridge().for_each returns when the closure has
\* returned for every chunk
ForEachReturns(done) == running = {} /\ \A k \in ChunkIds : k \in done

\* Chunk::render_file_name: the name the output options give the chunk
FileNameOf(c) == <<"file", c.name, BitsOf(c.bits)>>

Named == {k \in ChunkIds : chunks_vec[k].file_name # None}

\* line 119: a worker takes the chunk and calls render_file_name
RenderFileNameStart ==
  /\ pc = "render_file_name"
  /\ \E k \in ChunkIds \ (Named \cup running) : running' = running \cup {k}
  /\ UNCHANGED <<genvars, pc, chunks_vec, module_to_chunk, export_calls, assets, outcome>>

\* line 119: render_file_name returns for the chunk
RenderFileNameFinish ==
  /\ pc = "render_file_name"
  /\ \E k \in running :
       /\ chunks_vec' = [chunks_vec EXCEPT ![k].file_name = Some(FileNameOf(chunks_vec[k]))]
       /\ running' = running \ {k}
  /\ UNCHANGED <<genvars, pc, module_to_chunk, export_calls, assets, outcome>>

\* line 119: the for_each returns
RenderFileNamesJoin ==
  /\ pc = "render_file_name"
  /\ ForEachReturns(Named)
  /\ pc' = "de_conflict"
  /\ UNCHANGED <<genvars, chunks_vec, module_to_chunk, running, export_calls, assets, outcome>>

DeConflicted == {k \in ChunkIds : chunks_vec[k].de_conflicted}

\* Chunk::de_conflict under the chunk-scoped write rule: the modules whose
\* symbol-table entries the task of chunk k writes
DeConflictWrites(k) == Range(chunks_vec[k].modules)

\* lines 121-123: a worker takes the chunk and calls de_conflict
DeConflictStart ==
  /\ pc = "de_conflict"
  /\ \E k \in ChunkIds \ (DeConflicted \cup running) : running' = running \cup {k}
  /\ UNCHANGED <<genvars, pc, chunks_vec, module_to_chunk, export_calls, assets, outcome>>

\* lines 121-123: de_conflict returns for the chunk
DeConflictFinish ==
  /\ pc = "de_conflict"
  /\ \E k \in running :
       /\ chunks_vec' = [chunks_vec EXCEPT ![k].de_conflicted = TRUE]
       /\ running' = running \ {k}
  /\ UNCHANGED <<genvars, pc, module_to_chunk, export_calls, assets, outcome>>

\* lines 121-123: the for_each returns
DeConflictJoin ==
  /\ pc = "de_conflict"
  /\ ForEachReturns(DeConflicted)
  /\ pc' = "initialize_exports"
  /\ UNCHANGED <<genvars, chunks_vec, module_to_chunk, running, export_calls, assets, outcome>>

\* the position from which the loop of lines 125-129 goes on
ExportsPosition ==
  IF export_calls = <<>> THEN 1 ELSE export_calls[Len(export_calls)] + 1

\* variant: the loop is a parallel for_each over the chunks
ExportsReachesAny(k) ==
  /\ chunks_vec[k].entry_module # None
  /\ k \notin running
  /\ k \notin Range(export_calls)

\* lines 125-129: iter_mut().for_each visits the chunks one after the other;
\* it calls initialize_exports for chunk k when the visit of every earlier
\* chunk is over and chunk k is the next one with an entry module
ExportsReaches(k) ==
  /\ running = {}
  /\ k >= ExportsPosition
  /\ chunks_vec[k].entry_module # None
  /\ \A j \in ExportsPosition .. (k - 1) : chunks_vec[j].entry_module = None

\* line 127: initialize_exports is called for the chunk
InitializeExportsStart ==
  /\ pc = "initialize_exports"
  /\ \E k \in ChunkIds :
       /\ ExportsReaches(k)
       /\ running' = running \cup {k}
       /\ export_calls' = Append(export_calls, k)
  /\ UNCHANGED <<genvars, pc, chunks_vec, module_to_chunk, assets, outcome>>

\* line 127: initialize_exports returns
InitializeExportsFinish ==
  /\ pc = "initialize_exports"
  /\ \E k \in running :
       /\ chunks_vec' = [chunks_vec EXCEPT ![k].exports_initialized = TRUE]
       /\ running' = running \ {k}
  /\ UNCHANGED <<genvars, pc, module_to_chunk, export_calls, assets, outcome>>

\* line 129: the loop is over
InitializeExportsEnd ==
  /\ pc = "initialize_exports"
  /\ running = {}
  /\ ~ \E k \in ChunkIds : ExportsReaches(k)
  /\ pc' = "render"
  /\ UNCHANGED <<genvars, chunks_vec, module_to_chunk, running, export_calls, assets, outcome>>

\* Chunk::render returns the content or an error
RenderResults(k) == {[ok |-> TRUE, value |-> <<"content", k - 1>>],
                     [ok |-> FALSE, value |-> <<"render error", k - 1>>]}

\* Result::unwrap (line 135) and Option::unwrap (line 137)
Unwrap(r) == IF r.ok THEN [panicked |-> FALSE, value |-> r.value]
             ELSE [panicked |-> TRUE, value |-> r.value]

\* variant: the Asset is filed under the chunk's name
AssetUnderChunkName(c, content) == [file_name |-> c.name, content |-> content]

\* lines 136-139: Asset { file_name, content }
AssetNew(c, content) == [file_name |-> c.file_name[1], content |-> content]

\* lines 131-139 for the next chunk of the list
RenderChunk ==
  /\ pc = "render"
  /\ Len(assets) < Len(chunks_vec)
  /\ \E r \in RenderResults(Len(assets) + 1) :
       LET c == chunks_vec[Len(assets) + 1]
           content == Unwrap(r)
       IN  IF content.panicked
           THEN /\ pc' = "panicked"
                /\ outcome' = Some([kind |-> "panic", value |-> content.value])
                /\ assets' = assets
           ELSE /\ pc' = pc
                /\ outcome' = outcome
                /\ assets' = Append(assets, AssetNew(c, content.value))
  /\ UNCHANGED <<genvars, chunks_vec, module_to_chunk, running, export_calls>>

\* line 141
Return ==
  /\ pc = "render"
  /\ Len(assets) = Len(chunks_vec)
  /\ pc' = "returned"
  /\ outcome' = Some([kind |-> "Ok", value |-> assets])
  /\ UNCHANGED <<genvars, chunks_vec, module_to_chunk, running, export_calls, assets>>

(* --------------------------- specification ---------------------------- *)
InitOver(graphs) ==
  /\ graph \in graphs
  /\ pc = "seed"
  /\ module_to_bits = <<>>
  /\ chunks = <<>>
  /\ mark_index = 0
  /\ stack = <<>>
  /\ expanded = [m \in ModuleIds |-> [i \in 0 .. (Len(graph.entries) - 1) |-> 0]]
  /\ chunks_vec = <<>>
  /\ module_to_chunk = <<>>
  /\ running = {}
  /\ export_calls = <<>>
  /\ assets = <<>>
  /\ outcome = None

Init == InitOver(Graphs)

Next ==
  \/ Seed
  \/ MarkEntry
  \/ MarkImport
  \/ Cluster
  \/ Collect
  \/ RenderFileNameStart
  \/ RenderFileNameFinish
  \/ RenderFileNamesJoin
  \/ DeConflictStart
  \/ DeConflictFinish
  \/ DeConflictJoin
  \/ InitializeExportsStart
  \/ InitializeExportsFinish
  \/ InitializeExportsEnd
  \/ RenderChunk
  \/ Return

\* Bundle::generate
InitGenerate == InitOver(GenerateGraphs)

Spec == InitGenerate /\ [][Next]_vars

\* Bundle::generate_chunks alone
NextChunks ==
  \/ Seed
  \/ MarkEntry
  \/ MarkImport
  \/ Cluster
  \/ Collect

ChunksSpec == Init /\ [][NextChunks]_vars

\* Bundle::generate_chunks for entries declared with names
InitNamed == InitOver(NamedGraphs)

NamedChunksSpec == InitNamed /\ [][NextChunks]_vars

\* the marking of generate_chunks alone (lines 48-66)
InitMark == InitOver(MarkGraphs)

NextMark ==
  \/ Seed
  \/ MarkEntry
  \/ MarkImport

MarkSpec == InitMark /\ [][NextMark]_vars

(* ------------------------- notions of the claims ---------------------- *)
\* generate_chunks has returned: chunks_vec and module_to_chunk are final
ChunksGenerated == pc \notin {"seed", "mark", "cluster", "collect"}

EntryIndices == 0 .. (NumEntries - 1)

\* the places <<k, p>> of the chunk list at which module m is a member
Occurrences(m) ==
  UNION {{<<k, p>> : p \in {q \in 1 .. Len(chunks_vec[k].modules) :
                              chunks_vec[k].modules[q] = m}} :
         k \in 1 .. Len(chunks_vec)}

Assigned(m) == Occurrences(m) # {}

SameChunk(m1, m2) ==
  \E k \in 1 .. Len(chunks_vec) :
    m1 \in Range(chunks_vec[k].modules) /\ m2 \in Range(chunks_vec[k].modules)

\* the targets of the static import records of the modules of S
StaticTargets(S) ==
  UNION {{ImportRecordsOf(m)[j].resolved_module :
            j \in {q \in 1 .. Len(ImportRecordsOf(m)) :
                     ImportRecordsOf(m)[q].kind = StaticImport}} : m \in S}

RECURSIVE StaticClosure(_)
StaticClosure(S) ==
  IF StaticTargets(S) \subseteq S THEN S ELSE StaticClosure(S \cup StaticTargets(S))

\* the modules reachable from e over static import edges only, e included
StaticReach(e) == StaticClosure({e})

\* the chunks that exist: the map until it is collected, the list afterwards
CurrentChunks == IF ChunksGenerated THEN chunks_vec ELSE chunks

(* --------------------------------- C1 --------------------------------- *)
\* C1: after generate_chunks every module other than the runtime module is a
\* member of exactly one chunk, at exactly one place of its member list,
\* wherever the runtime module sits in the module list.
C1_EveryModuleInExactlyOneChunk ==
  ChunksGenerated =>
    \A m \in ModuleIds \ {graph.runtime.id} : Cardinality(Occurrences(m)) = 1

\* the runtime module is not the first module and two chunks have members
C1_Witness ==
  /\ ChunksGenerated
  /\ graph.runtime.id = 1
  /\ \E k1, k2 \in 1 .. Len(chunks_vec) :
       /\ k1 # k2
       /\ chunks_vec[k1].modules # <<>>
       /\ chunks_vec[k2].modules # <<>>

(* --------------------------------- C2 --------------------------------- *)
\* C2: after generate_chunks two assigned modules are members of the same
\* chunk iff their reachability bitsets are equal, and every member of a
\* chunk has the signature of that chunk.
C2_SameChunkIffEqualBits ==
  ChunksGenerated =>
    /\ \A m1, m2 \in ModuleIds :
         (Assigned(m1) /\ Assigned(m2)) =>
           (SameChunk(m1, m2) <=> module_to_bits[m1] = module_to_bits[m2])
    /\ \A k \in 1 .. Len(chunks_vec) :
         \A m \in Range(chunks_vec[k].modules) :
           module_to_bits[m] = chunks_vec[k].bits

\* two modules share a chunk and a third assigned module is in another one
C2_Witness ==
  /\ ChunksGenerated
  /\ \E m1, m2, m3 \in ModuleIds :
       /\ m1 # m2
       /\ SameChunk(m1, m2)
       /\ Assigned(m3)
       /\ ~SameChunk(m1, m3)
       /\ BitsOf(module_to_bits[m1]) # {}
       /\ BitsOf(module_to_bits[m3]) # {}

(* --------------------------------- C3 --------------------------------- *)
\* C3 as stated: after generate_chunks, for every entry index i exactly one
\* chunk has entry_module = Some(entry module of i), and that chunk has the
\* singleton signature {i}.
C3_Original ==
  ChunksGenerated =>
    \A i \in EntryIndices :
      /\ Cardinality({k \in 1 .. Len(chunks_vec) :
                        chunks_vec[k].entry_module = Some(EntryModule(i))}) = 1
      /\ \A k \in 1 .. Len(chunks_vec) :
           chunks_vec[k].entry_module = Some(EntryModule(i)) =>
             chunks_vec[k].bits = EntryBits(i)

\* C3 as amended: from seeding on, and in the final chunk list, for every
\* entry index i exactly one chunk has the singleton signature {i} and its
\* entry_module is Some(entries[i]); a module declared at n entry indices is
\* the entry_module of exactly n chunks (one when it is declared once).
C3_EntryChunkPerEntryIndex ==
  pc # "seed" =>
    /\ \A i \in EntryIndices :
         /\ Cardinality({k \in 1 .. Len(CurrentChunks) :
                           CurrentChunks[k].bits = EntryBits(i)}) = 1
         /\ \A k \in 1 .. Len(CurrentChunks) :
              CurrentChunks[k].bits = EntryBits(i) =>
                CurrentChunks[k].entry_module = Some(EntryModule(i))
    /\ \A e \in ModuleIds :
         Cardinality({k \in 1 .. Len(CurrentChunks) :
                        CurrentChunks[k].entry_module = Some(e)})
           = Cardinality({i \in EntryIndices : EntryModule(i) = e})

\* an entry whose singleton signature no module has keeps its (empty) chunk,
\* while another entry's chunk received a module in the clustering step
C3_Witness ==
  /\ ChunksGenerated
  /\ \E i, j \in EntryIndices :
       /\ \A m \in ModuleIds : module_to_bits[m] # EntryBits(i)
       /\ \E k \in 1 .. Len(chunks_vec) :
            /\ chunks_vec[k].bits = EntryBits(i)
            /\ chunks_vec[k].entry_module = Some(EntryModule(i))
            /\ chunks_vec[k].modules = <<>>
       /\ \E k \in 1 .. Len(chunks_vec) :
            /\ chunks_vec[k].bits = EntryBits(j)
            /\ chunks_vec[k].modules # <<>>

(* --------------------------------- C4 --------------------------------- *)
\* C4: during and after the marking loop a module has bit i only if it is the entry module of entry i or is
\* reachable from it over static import edges only; a dynamic import edge
\* never carries a bit.
C4_BitsOnlyAlongStaticEdges ==
  pc \in {"mark", "cluster"} =>
    \A i \in EntryIndices :
      {m \in ModuleIds : BitSetHasBit(module_to_bits[m], i)}
        \subseteq StaticReach(EntryModule(i))

\* scenario D: entry 0 imports m1 statically, m1 imports the entry module of
\* entry 1 only dynamically; after marking m1 has {0} and that module {1}
C4_Witness ==
  /\ pc = "cluster"
  /\ NumEntries = 2
  /\ \E m1 \in ModuleIds :
       LET e1 == EntryModule(0)
           e2 == EntryModule(1)
       IN  /\ Cardinality({e1, m1, e2}) = 3
           /\ [resolved_module |-> m1, kind |-> StaticImport]
                \in Range(ImportRecordsOf(e1))
           /\ [resolved_module |-> e2, kind |-> DynamicImport]
                \in Range(ImportRecordsOf(m1))
           /\ BitsOf(module_to_bits[m1]) = {0}
           /\ BitsOf(module_to_bits[e2]) = {1}

(* --------------------------------- C5 --------------------------------- *)
\* C5: when the call for entry i has returned, bit i is set on the entry
\* module and on every module statically reachable from it.
C5_MarkingComplete ==
  pc \in {"mark", "cluster"} =>
    \A i \in 0 .. (mark_index - 1) :
      \A m \in StaticReach(EntryModule(i)) : BitSetHasBit(module_to_bits[m], i)

\* marking is over for a graph with a static cycle through the first entry
\* module and a module that both entries reach
C5_Witness ==
  /\ pc = "cluster"
  /\ NumEntries = 2
  /\ \E m \in ModuleIds \ {EntryModule(0)} :
       /\ m \in StaticTargets({EntryModule(0)})
       /\ EntryModule(0) \in StaticTargets({m})
       /\ BitsOf(module_to_bits[m]) = {0, 1}

(* --------------------------------- C6 --------------------------------- *)
RECURSIVE PendingRecords(_)
\* the import records the active calls have still to visit
PendingRecords(st) ==
  IF st = <<>> THEN 0
  ELSE (Len(ImportRecordsOf(Head(st).module_id)) - Head(st).next + 1)
         + PendingRecords(Tail(st))

RECURSIVE ExpandedBelow(_)
\* the number of expanding visits of the modules 0 .. m - 1, over all entries
ExpandedBelow(m) ==
  IF m = 0 THEN 0
  ELSE LET RECURSIVE Row(_)
           Row(i) == IF i = 0 THEN 0 ELSE expanded[m - 1][i - 1] + Row(i - 1)
       IN  Row(NumEntries) + ExpandedBelow(m - 1)

ExpandedTotal == ExpandedBelow(NumModules)

RECURSIVE RecordsBelow(_)
RecordsBelow(m) ==
  IF m = 0 THEN 0 ELSE Len(ImportRecordsOf(m - 1)) + RecordsBelow(m - 1)

TotalRecords == RecordsBelow(NumModules)

\* what marking has still to do: (module, entry) pairs not yet expanded,
\* records not yet visited, entries not yet finished
MarkMeasure ==
  (NumModules * NumEntries - ExpandedTotal) * (TotalRecords + 1)
    + PendingRecords(stack) + (NumEntries - mark_index)

VisitsBounded ==
  /\ \A m \in ModuleIds : \A i \in EntryIndices : expanded[m][i] <= 1
  /\ ExpandedTotal <= NumModules * NumEntries
  /\ Len(stack) <= NumModules
  /\ MarkMeasure >= 0

\* C6: marking terminates: for a fixed entry index each module is expanded
\* (bit set, import records traversed) at most once, the number of expanding
\* visits is at most modules x entries, and every step of marking decreases
\* a non-negative measure, cycles included.
C6_MarkingTerminates ==
  /\ [](pc \in {"mark", "cluster"} => VisitsBounded)
  /\ [][pc = "mark" => MarkMeasure' < MarkMeasure]_vars

\* marking is over for a static cycle m1 <-> m2 under the first entry
C6_Witness ==
  /\ pc = "cluster"
  /\ NumEntries >= 1
  /\ \E m \in ModuleIds \ {EntryModule(0)} :
       /\ m \in StaticTargets({EntryModule(0)})
       /\ EntryModule(0) \in StaticTargets({m})
       /\ expanded[m][0] = 1
       /\ expanded[EntryModule(0)][0] = 1

(* --------------------------------- C7 --------------------------------- *)
\* C7: after generate_chunks the runtime module is a member of no chunk and
\* its module-to-chunk entry is None, wherever it sits in the module list.
C7_RuntimeExcluded ==
  ChunksGenerated =>
    /\ ~Assigned(graph.runtime.id)
    /\ module_to_chunk[graph.runtime.id] = None

(* --------------------------------- C8 --------------------------------- *)
\* C8: generate ends with the complete Asset list, one Asset per chunk, or
\* with an error value; a failing render never ends it in a panic.
C8_GenerateReturnsResult ==
  outcome # None =>
    \/ outcome[1].kind = "Err"
    \/ /\ outcome[1].kind = "Ok"
       /\ Len(outcome[1].value) = Len(chunks_vec)

(* --------------------------------- C9 --------------------------------- *)
\* C9: the final chunk list is in first-seen order: the seeded entry chunks
\* in declaration order, then the other chunks in the order in which their
\* signatures were first met (the order of insertion into the map).
C9_FirstSeenOrder ==
  ChunksGenerated =>
    /\ Len(chunks_vec) = Len(chunks)
    /\ \A k \in 1 .. Len(chunks_vec) : chunks_vec[k].bits = chunks[k].bits

(* --------------------------------- C10 -------------------------------- *)
\* C10: after generate_chunks the member list of every chunk is in
\* non-decreasing execution order.
C10_MembersInExecOrder ==
  ChunksGenerated =>
    \A k \in 1 .. Len(chunks_vec) :
      \A p, q \in 1 .. Len(chunks_vec[k].modules) :
        p < q => ExecOrder(chunks_vec[k].modules[p])
                   <= ExecOrder(chunks_vec[k].modules[q])

\* a chunk whose members were pushed in module order against their
\* execution order: the sort moved the later module to the front
C10_Witness ==
  /\ ChunksGenerated
  /\ \E k \in 1 .. Len(chunks_vec) :
       /\ Len(chunks_vec[k].modules) >= 2
       /\ chunks_vec[k].modules[1] > chunks_vec[k].modules[2]
       /\ ExecOrder(chunks_vec[k].modules[1]) < ExecOrder(chunks_vec[k].modules[2])

(* --------------------------------- C11 -------------------------------- *)
\* generate has returned Ok(assets)
Succeeded == outcome # None /\ outcome[1].kind = "Ok"

\* the chunks of the final list with an all-zero signature
ZeroChunks == {k \in ChunkIds : BitsOf(chunks_vec[k].bits) = {}}

\* the seeded chunks of the final list that have no member
EmptySeeded == {k \in ChunkIds : /\ chunks_vec[k].entry_module # None
                                 /\ chunks_vec[k].modules = <<>>}

\* C11: when generate returns Ok, the list it returns has exactly one Asset
\* per chunk of the final chunk list, in the order of that list: the k-th
\* Asset has the file name of the k-th chunk and the content render returned
\* for the k-th chunk; chunks without members and the chunk of the all-zero
\* signature are no exception.
C11_OneAssetPerChunk ==
  Succeeded =>
    /\ Len(outcome[1].value) = Len(chunks_vec)
    /\ \A k \in ChunkIds :
         /\ chunks_vec[k].file_name = Some(outcome[1].value[k].file_name)
         /\ outcome[1].value[k].file_name = FileNameOf(chunks_vec[k])
         /\ outcome[1].value[k].content = <<"content", k - 1>>

\* a successful run whose chunk list holds an empty seeded chunk and, behind
\* it, the chunk of the all-zero signature
C11_Witness ==
  /\ Succeeded
  /\ \E e \in EmptySeeded : \E z \in ZeroChunks :
       /\ e < z
       /\ Len(outcome[1].value) >= z

(* --------------------------------- C12 -------------------------------- *)
\* a task of the phase at position p is executing
RunningAt(p) == pc = p /\ running # {}

\* render_file_name was called for every chunk and has returned
NamingOver == Named = ChunkIds /\ ~RunningAt("render_file_name")

DeConflictBegun == RunningAt("de_conflict") \/ DeConflicted # {}

\* de_conflict was called for every chunk and has returned
DeConflictOver == DeConflicted = ChunkIds /\ ~RunningAt("de_conflict")

ExportsBegun == export_calls # <<>>

\* initialize_exports has returned for every chunk with an entry module
ExportsOver ==
  /\ ~RunningAt("initialize_exports")
  /\ \A k \in ChunkIds :
       chunks_vec[k].entry_module # None => chunks_vec[k].exports_initialized

\* render was called for some chunk
RenderBegun == assets # <<>> \/ pc \in {"panicked", "returned"}

\* C12: the phases of generate are separated by barriers, in the order
\* naming, deconfliction, export wiring, render, in every interleaving of
\* the parallel tasks: no deconfliction task starts before the naming of
\* every chunk has finished, no export wiring starts before the
\* deconfliction of every chunk has finished, and no render starts before
\* naming, deconfliction and export wiring have finished for all chunks.
C12_PhasesSeparatedByBarriers ==
  /\ DeConflictBegun => NamingOver
  /\ ExportsBegun => NamingOver /\ DeConflictOver
  /\ RenderBegun => NamingOver /\ DeConflictOver /\ ExportsOver

\* an export-wiring step is executing in a run with at least three chunks,
\* behind the parallel naming and deconfliction of all of them
C12_Witness ==
  /\ RunningAt("initialize_exports")
  /\ Len(chunks_vec) >= 3
  /\ NamingOver
  /\ DeConflictOver

(* --------------------------------- C13 -------------------------------- *)
EntryChunks == {k \in ChunkIds : chunks_vec[k].entry_module # None}

\* C13: export wiring runs without cross-chunk parallelism: at most one
\* initialize_exports step is active at any time, the steps run in ascending
\* chunk index, and once the phase is over initialize_exports was called
\* exactly once for each chunk with an entry module and never for a chunk
\* without one.
C13_ExportWiringSequential ==
  /\ pc = "initialize_exports" => Cardinality(running) <= 1
  /\ \A p, q \in 1 .. Len(export_calls) :
       p < q => export_calls[p] < export_calls[q]
  /\ Range(export_calls) \subseteq EntryChunks
  /\ \A k \in ChunkIds : chunks_vec[k].exports_initialized => k \in EntryChunks
  /\ pc \in {"render", "panicked", "returned"} =>
       \A k \in EntryChunks :
         /\ Cardinality({p \in 1 .. Len(export_calls) : export_calls[p] = k}) = 1
         /\ chunks_vec[k].exports_initialized

\* the phase is over in a run with two entry chunks, the first of them
\* behind a chunk without entry module that the loop passed over
C13_Witness ==
  /\ pc = "render"
  /\ Len(export_calls) = 2
  /\ export_calls[1] > 1
  /\ ChunkIds \ EntryChunks # {}

(* --------------------------------- C14 -------------------------------- *)
\* C14: during the parallel deconfliction any two tasks that run at the same
\* time work on disjoint sets of member modules: no module is handed to two
\* tasks, so no symbol-table entry of a module is written by two tasks.
C14_ConcurrentTasksDisjoint ==
  pc = "de_conflict" =>
    \A k1, k2 \in running :
      k1 # k2 => DeConflictWrites(k1) \cap DeConflictWrites(k2) = {}

\* two deconfliction tasks run at the same time, each on a chunk with members
C14_Witness ==
  /\ pc = "de_conflict"
  /\ \E k1, k2 \in running :
       /\ k1 # k2
       /\ DeConflictWrites(k1) # {}
       /\ DeConflictWrites(k2) # {}

(* --------------------------------- C15 -------------------------------- *)
\* module_to_chunk says of every module what the chunk list says: the c-th
\* chunk (counted from 0) for a member of that chunk, None for a module that
\* is in no chunk
IndexAgrees ==
  \A m \in ModuleIds :
    /\ \A k \in ChunkIds :
         module_to_chunk[m] = Some(k - 1) <=> m \in Range(chunks_vec[k].modules)
    /\ module_to_chunk[m] = None <=> ~Assigned(m)
    /\ module_to_chunk[m] # None => (module_to_chunk[m][1] + 1) \in ChunkIds

\* C15: the index generate_chunks returns agrees with the chunk list it
\* returns: module_to_chunk[m] = Some(c) exactly if m is in the member list
\* of the c-th chunk, it is defined for every assigned module and None for
\* every other module; and no later phase of generate modifies it.
C15_IndexAgreesAndIsKept ==
  /\ [](ChunksGenerated => IndexAgrees)
  /\ [][ChunksGenerated => module_to_chunk' = module_to_chunk]_vars

\* generate has returned; one module is in no chunk and another one is in a
\* chunk that is not the first of the list
C15_Witness ==
  /\ pc = "returned"
  /\ \E m1, m2 \in ModuleIds :
       /\ module_to_chunk[m1] = None
       /\ module_to_chunk[m2] # None
       /\ module_to_chunk[m2][1] >= 1

(* --------------------------------- C16 -------------------------------- *)
\* the chunks of the final list that the clustering step created
ClusteredChunks == {k \in ChunkIds : chunks_vec[k].entry_module = None}

\* C16: every chunk created by the clustering step has a generated name that
\* no other chunk of the final list has, be that chunk generated too or the
\* seeded chunk of an entry, whatever names the entries are declared with.
C16_GeneratedNamesUnique ==
  ChunksGenerated =>
    \A k \in ClusteredChunks :
      /\ chunks_vec[k].name # None
      /\ \A j \in ChunkIds \ {k} : chunks_vec[j].name # chunks_vec[k].name

(* --------------------------------- C17 -------------------------------- *)
\* the signature of module m when the marking of every entry is complete
FinalSignature(m) == [i \in EntryIndices |-> m \in StaticReach(EntryModule(i))]

\* the marking of every entry has run and has returned
MarkingFinished ==
  /\ mark_index = NumEntries
  /\ stack = <<>>
  /\ \A m \in ModuleIds : module_to_bits[m] = FinalSignature(m)

\* the entries are marked one after the other in declaration order, once
\* each: the entries before mark_index are complete, the entries behind it
\* are not begun, and the active calls are those of entry mark_index
MarkingInOrder ==
  pc = "mark" =>
    /\ mark_index < NumEntries
    /\ stack # <<>> => stack[1].module_id = EntryModule(mark_index)
    /\ \A i \in EntryIndices :
         /\ i < mark_index =>
              /\ expanded[EntryModule(i)][i] = 1
              /\ \A m \in ModuleIds :
                   BitSetHasBit(module_to_bits[m], i) <=> m \in StaticReach(EntryModule(i))
         /\ i > mark_index =>
              \A m \in ModuleIds :
                expanded[m][i] = 0 /\ ~BitSetHasBit(module_to_bits[m], i)

\* the map holds seeded chunks only: nothing was clustered
OnlySeeded ==
  \A k \in 1 .. Len(chunks) :
    chunks[k].entry_module # None /\ chunks[k].modules = <<>>

\* every chunk is keyed by the final signature of each of its members
KeysAreFinal ==
  \A k \in 1 .. Len(CurrentChunks) :
    \A m \in Range(CurrentChunks[k].modules) :
      CurrentChunks[k].bits = FinalSignature(m)

\* the parts of C17 that concern marking and clustering
MarkingBeforeClustering ==
  /\ MarkingInOrder
  /\ pc \in {"seed", "mark", "cluster"} => OnlySeeded
  /\ pc \notin {"seed", "mark"} => MarkingFinished
  /\ pc \notin {"seed", "mark", "cluster"} => KeysAreFinal

\* C17 as it is stated: marking runs once per entry, one entry after the
\* other in declaration order, and is complete for all entries before
\* partitioning begins: until then no chunk exists, seeded or clustered, and
\* no signature is read, so every chunk key is a final signature.
C17_Original ==
  /\ MarkingBeforeClustering
  /\ pc \in {"seed", "mark"} => chunks = <<>>

\* C17, amended: marking runs once per entry, one entry after the other in
\* declaration order, and is complete for all entries before clustering
\* begins: until then the map holds nothing but the seeded entry chunks,
\* which are created before marking, keyed by the entries' singleton bitsets
\* and without members; no module is clustered before marking has finished,
\* so every chunk is keyed by the final signature of its members.
C17_MarkingBeforeClustering ==
  /\ MarkingBeforeClustering
  /\ pc = "mark" => Len(chunks) >= 1 /\ OnlySeeded

\* generate_chunks is over for two entries; a clustered chunk is keyed by a
\* signature with both bits, which only the second marking completes
C17_Witness ==
  /\ ChunksGenerated
  /\ NumEntries = 2
  /\ \E k \in ChunkIds :
       /\ chunks_vec[k].entry_module = None
       /\ chunks_vec[k].modules # <<>>
       /\ BitsOf(chunks_vec[k].bits) = {0, 1}

(* --------------------------------- C18 -------------------------------- *)
\* the modules other than the runtime module that no entry reaches
Unreached ==
  {m \in ModuleIds \ {graph.runtime.id} : BitsOf(module_to_bits[m]) = {}}

\* C18: the modules other than the runtime module that no entry reaches
\* (all-zero signature) are not dropped: one single chunk of the final list
\* holds them all, it has no entry module, the module-to-chunk index names
\* it for each of them, and when generate returns Ok the Asset list holds
\* the Asset of that chunk.
C18_UnreachedModulesKept ==
  (ChunksGenerated /\ Unreached # {}) =>
    \E k \in ChunkIds :
      /\ Unreached \subseteq Range(chunks_vec[k].modules)
      /\ \A j \in ChunkIds \ {k} : Range(chunks_vec[j].modules) \cap Unreached = {}
      /\ chunks_vec[k].entry_module = None
      /\ BitsOf(chunks_vec[k].bits) = {}
      /\ \A m \in Unreached : module_to_chunk[m] = Some(k - 1)
      /\ Succeeded =>
           /\ Len(outcome[1].value) >= k
           /\ Some(outcome[1].value[k].file_name) = chunks_vec[k].file_name

\* generate has returned Ok for a graph with an entry that leaves two
\* modules unreached
C18_Witness ==
  /\ Succeeded
  /\ NumEntries >= 1
  /\ Cardinality(Unreached) >= 2

(* --------------------------------- C19 -------------------------------- *)
\* the clustering loop does not visit module m
Skipped(m) == m \notin Range(SkipWhileRuntime(ModuleIdList, graph.runtime.id))

\* the module of entry i is statically reachable from another declared entry
ReachedFromOther(i) ==
  \E j \in EntryIndices \ {i} : EntryModule(i) \in StaticReach(EntryModule(j))

\* the position of the seeded chunk of entry i in the final list
SeededChunk(i) == CHOOSE k \in ChunkIds : chunks_vec[k].bits = EntryBits(i)

\* the module of entry i is a member of its own seeded chunk exactly if no
\* other entry reaches it and the clustering loop does not skip it
OwnEntryIffUnshared(i) ==
  EntryModule(i) \in Range(chunks_vec[SeededChunk(i)].modules)
    <=> (~ReachedFromOther(i) /\ ~Skipped(EntryModule(i)))

InClusteredChunk(m) ==
  \E k \in ChunkIds :
    chunks_vec[k].entry_module = None /\ m \in Range(chunks_vec[k].modules)

\* C19 as it is stated: the seeded chunk of entry i contains its own entry
\* module if and only if no other declared entry reaches that module
\* statically and it is not the skipped runtime module; when another entry
\* reaches it, the seeded chunk of entry i has no member and the entry
\* module is a member of a chunk without entry module.
C19_Original ==
  ChunksGenerated =>
    \A i \in EntryIndices :
      /\ OwnEntryIffUnshared(i)
      /\ ReachedFromOther(i) =>
           /\ chunks_vec[SeededChunk(i)].modules = <<>>
           /\ InClusteredChunk(EntryModule(i))

\* C19, amended: as stated, but when another entry reaches the entry module
\* it is a member of a chunk without entry module unless it is the skipped
\* runtime module, which is a member of no chunk.
C19_SeededChunkHoldsUnsharedEntry ==
  ChunksGenerated =>
    \A i \in EntryIndices :
      /\ OwnEntryIffUnshared(i)
      /\ ReachedFromOther(i) =>
           /\ chunks_vec[SeededChunk(i)].modules = <<>>
           /\ InClusteredChunk(EntryModule(i)) <=> ~Skipped(EntryModule(i))

\* two entries: the first one imports the second one statically; the first
\* one is in its seeded chunk, the chunk of the second one is empty and its
\* module is in a chunk without entry module
C19_Witness ==
  /\ ChunksGenerated
  /\ NumEntries = 2
  /\ EntryModule(0) \in Range(chunks_vec[SeededChunk(0)].modules)
  /\ ReachedFromOther(1)
  /\ chunks_vec[SeededChunk(1)].modules = <<>>
  /\ InClusteredChunk(EntryModule(1))

====
